---------------------------- MODULE Spec2Model ----------------------------
(***************************************************************************)
(* Model of fovis_ros::OdometerBase (src/fovis_ros/src/odometer_base.hpp): *)
(* the per-frame pose integration of process(), the reinitialisation       *)
(* request processReinitFovis(), and the keepalive publishLastKnownTf().   *)
(*                                                                         *)
(* Doubles are modelled as integers plus +Inf, -Inf and NaN, with the      *)
(* IEEE-754 rules for +, * and unary minus.  Rigid transforms              *)
(* are tf::Transform values: a 3x3 basis and an origin.  Rotations are     *)
(* restricted to the identity and the half turns about the axes, whose     *)
(* matrices and quaternions have integer entries, so that the tf algebra   *)
(* is exact.  Times are in ticks of half a second; 0 is ros::Time(0).      *)
(***************************************************************************)
EXTENDS Integers, Sequences, FiniteSets

(***************************************************************************)
(* Bounds of the model.                                                    *)
(***************************************************************************)
MaxFrames == 3      \* process() calls in a run
MaxTime == 20       \* last clock reading
MaxShort == 1       \* one-tick clock advances after each long pause
MaxStep == 1        \* largest sensor-frame X coordinate the estimator reports
MaxLag == 2         \* largest lag of an image stamp behind the clock

(***************************************************************************)
(* IEEE-754 doubles.  A finite value is the integer itself; +Inf, -Inf and *)
(* NaN are three integers no finite value of a run comes near.             *)
(***************************************************************************)
PInf == 1000 * 1000
NInf == 0 - PInf
NaN == PInf + 1

isnan(a) == a = NaN
isinf(a) == a = PInf \/ a = NInf
isfinite(a) == ~isnan(a) /\ ~isinf(a)
Sign(n) == IF n > 0 THEN 1 ELSE IF n < 0 THEN -1 ELSE 0

FNeg(a) == IF isnan(a) THEN NaN ELSE 0 - a

FAdd(a, b) ==
  IF isnan(a) \/ isnan(b) THEN NaN
  ELSE IF isinf(a) /\ isinf(b) THEN (IF a = b THEN a ELSE NaN)
  ELSE IF isinf(a) THEN a
  ELSE IF isinf(b) THEN b
  ELSE a + b

FSub(a, b) == FAdd(a, FNeg(b))

FMul(a, b) ==
  IF isnan(a) \/ isnan(b) THEN NaN
  ELSE IF isinf(a) \/ isinf(b)
       THEN (IF a = 0 \/ b = 0 THEN NaN ELSE Sign(a) * Sign(b) * PInf)
  ELSE a * b

\* 2.0 / d; the finite d the model produces is 1 (a unit quaternion)
TwoOver(d) ==
  IF isnan(d) THEN NaN
  ELSE IF isinf(d) THEN 0
  ELSE IF d = 0 THEN PInf
  ELSE 2 \div d

\* a * (0.5 / s); the finite a the model produces is 0 (a diagonal basis)
MulHalfOver(a, s) ==
  IF isnan(a) \/ isnan(s) THEN NaN
  ELSE IF isinf(s) THEN FMul(a, 0)
  ELSE IF s = 0 THEN FMul(a, PInf)
  ELSE IF isinf(a) THEN FMul(a, Sign(s))
  ELSE a \div (2 * s)

\* sqrt of a perfect square, NaN or +Inf
FSqrt(a) ==
  IF isnan(a) THEN NaN
  ELSE IF isinf(a) THEN (IF a > 0 THEN PInf ELSE NaN)
  ELSE IF a < 0 THEN NaN
  ELSE CHOOSE r \in 0..(a + 1) : r * r = a

\* a * 0.5; the finite a the model produces is 2 (sqrt(4))
FHalf(a) == IF isfinite(a) THEN a \div 2 ELSE a

\* IEEE comparison: false when either side is NaN
FGt(a, b) == ~isnan(a) /\ ~isnan(b) /\ a > b

FLt(a, b) == FGt(b, a)

(***************************************************************************)
(* tf::Vector3, tf::Quaternion (x, y, z, w), tf::Matrix3x3, tf::Transform. *)
(***************************************************************************)
Vec(x, y, z) == <<x, y, z>>
Quat(x, y, z, w) == <<x, y, z, w>>

Dot(a, b) == FAdd(FAdd(FMul(a[1], b[1]), FMul(a[2], b[2])), FMul(a[3], b[3]))
VAdd(a, b) == <<FAdd(a[1], b[1]), FAdd(a[2], b[2]), FAdd(a[3], b[3])>>
VNeg(a) == <<FNeg(a[1]), FNeg(a[2]), FNeg(a[3])>>
VScale(a, s) == <<FMul(a[1], s), FMul(a[2], s), FMul(a[3], s)>>

MCol(m, j) == <<m[1][j], m[2][j], m[3][j]>>
MTranspose(m) == <<MCol(m, 1), MCol(m, 2), MCol(m, 3)>>
MRow(r, b) == <<Dot(r, MCol(b, 1)), Dot(r, MCol(b, 2)), Dot(r, MCol(b, 3))>>
MMul(a, b) == <<MRow(a[1], b), MRow(a[2], b), MRow(a[3], b)>>
MVec(m, x) == <<Dot(m[1], x), Dot(m[2], x), Dot(m[3], x)>>

IdentityM ==
  <<Vec(1, 0, 0), Vec(0, 1, 0), Vec(0, 0, 1)>>

\* tf::Matrix3x3::setRotation(q)
setRotation(q) ==
  LET d == FAdd(FAdd(FMul(q[1], q[1]), FMul(q[2], q[2])),
                FAdd(FMul(q[3], q[3]), FMul(q[4], q[4])))
      s == TwoOver(d)
      xs == FMul(q[1], s)
      ys == FMul(q[2], s)
      zs == FMul(q[3], s)
      wx == FMul(q[4], xs)
      wy == FMul(q[4], ys)
      wz == FMul(q[4], zs)
      xx == FMul(q[1], xs)
      xy == FMul(q[1], ys)
      xz == FMul(q[1], zs)
      yy == FMul(q[2], ys)
      yz == FMul(q[2], zs)
      zz == FMul(q[3], zs)
      one == 1
  IN  << <<FSub(one, FAdd(yy, zz)), FSub(xy, wz), FAdd(xz, wy)>>,
         <<FAdd(xy, wz), FSub(one, FAdd(xx, zz)), FSub(yz, wx)>>,
         <<FSub(xz, wy), FAdd(yz, wx), FSub(one, FAdd(xx, yy))>> >>

\* tf::Matrix3x3::getRotation(q)
getRotation(m) ==
  LET trace == FAdd(FAdd(m[1][1], m[2][2]), m[3][3])
  IN  IF FGt(trace, 0)
      THEN LET s == FSqrt(FAdd(trace, 1))
           IN  <<MulHalfOver(FSub(m[3][2], m[2][3]), s),
                 MulHalfOver(FSub(m[1][3], m[3][1]), s),
                 MulHalfOver(FSub(m[2][1], m[1][2]), s),
                 FHalf(s)>>
      ELSE LET i == IF FLt(m[1][1], m[2][2])
                    THEN (IF FLt(m[2][2], m[3][3]) THEN 3 ELSE 2)
                    ELSE (IF FLt(m[1][1], m[3][3]) THEN 3 ELSE 1)
               j == (i % 3) + 1
               l == (j % 3) + 1
               s == FSqrt(FAdd(FSub(FSub(m[i][i], m[j][j]), m[l][l]), 1))
               t == [n \in 1..4 |->
                       IF n = i THEN FHalf(s)
                       ELSE IF n = 4 THEN MulHalfOver(FSub(m[l][j], m[j][l]), s)
                       ELSE IF n = j THEN MulHalfOver(FAdd(m[j][i], m[i][j]), s)
                       ELSE MulHalfOver(FAdd(m[l][i], m[i][l]), s)]
           IN  <<t[1], t[2], t[3], t[4]>>

\* tf::Transform(q, origin)
Transform(q, c) == [basis |-> setRotation(q), origin |-> c]

\* tf::Transform::setIdentity()
IdentityT == [basis |-> IdentityM, origin |-> Vec(0, 0, 0)]

\* tf::Transform::operator*
TMul(t1, t2) ==
  [basis |-> MMul(t1.basis, t2.basis),
   origin |-> VAdd(MVec(t1.basis, t2.origin), t1.origin)]

\* tf::Transform::inverse()
TInverse(t) ==
  LET inv == MTranspose(t.basis)
  IN  [basis |-> inv, origin |-> MVec(inv, VNeg(t.origin))]


(***************************************************************************)
(* Message types.  A twist component is the quotient num / den of a double *)
(* by a positive number of half seconds, kept in lowest terms; angular     *)
(* components are in units of pi rad/s.                                    *)
(***************************************************************************)
RECURSIVE Gcd(_, _)
Gcd(a, b) == IF b = 0 THEN a ELSE Gcd(b, a % b)
Abs(n) == IF n < 0 THEN 0 - n ELSE n

Rat(n, d) == [num |-> n, den |-> d]
ZeroRat == Rat(0, 1)

\* a / dt, with dt > 0 a duration in ticks of half a second
DivBySec(a, dtTicks) ==
  IF ~isfinite(a) THEN Rat(a, 1)
  ELSE LET g == Gcd(Abs(2 * a), dtTicks)
       IN  Rat((2 * a) \div g, dtTicks \div g)

ZeroTwist == [linear |-> <<ZeroRat, ZeroRat, ZeroRat>>,
              angular |-> <<ZeroRat, ZeroRat, ZeroRat>>]
ZeroCovariance == [n \in 1..36 |-> 0]

\* geometry_msgs::Pose as default-constructed (all fields zero)
DefaultPose == [position |-> Vec(0, 0, 0), orientation |-> Quat(0, 0, 0, 0)]

\* tf::poseTFToMsg
poseTFToMsg(t) == [position |-> t.origin, orientation |-> getRotation(t.basis)]

NoTf == [kind |-> "none", transform |-> IdentityT, stamp |-> 0]
\* An odometry message that would start out with a velocity
NoOdomMoving ==
  [sent |-> FALSE, pose |-> DefaultPose,
   twist |-> [ZeroTwist EXCEPT !.linear = <<Rat(1, 1), ZeroRat, ZeroRat>>],
   covariance |-> ZeroCovariance, stamp |-> 0]

\* nav_msgs::Odometry as constructed
NoOdom == [sent |-> FALSE, pose |-> DefaultPose, twist |-> ZeroTwist,
           covariance |-> ZeroCovariance, stamp |-> 0]
NoPose == [sent |-> FALSE, pose |-> DefaultPose, stamp |-> 0]

\* What one step emitted: ev is "failure", "nan" or "success" for the step
\* that ends a process() call, else "none".  With a "success" go the dt the
\* call computed, the outcome of the frame before it (prev), whether the
\* estimator context was discarded since the last fusion (gap), and the
\* motion and covariance the estimator reported (motion, motion_cov).  With
\* a "success" or a "failure" goes whether the call ran initOdometer() (init).
NoOut == [ev |-> "none", tf |-> NoTf, odom |-> NoOdom, pose |-> NoPose,
          info |-> FALSE, init |-> FALSE, dt |-> 0, prev |-> "none",
          gap |-> FALSE,
          motion |-> <<>>, motion_cov |-> <<>>]


(***************************************************************************)
(* The environment: the estimator's reports, the tf tree, the callers.     *)
(***************************************************************************)
QI == Quat(0, 0, 0, 1)          \* no rotation
RZ == Quat(0, 0, 1, 0)          \* half turn about Z

\* fovis::VisualOdometry::getPose(), as the Eigen translation and quaternion
FinitePoses == {[q |-> QI, o |-> Vec(x, 0, 0)] : x \in 0..MaxStep}
NonFinitePoses ==
  { [q |-> QI, o |-> <<NaN, 0, 0>>],
    [q |-> QI, o |-> <<PInf, 0, 0>>],
    [q |-> <<0, 0, NaN, 1>>, o |-> Vec(1, 0, 0)],
    [q |-> <<0, 0, 0, PInf>>, o |-> Vec(1, 0, 0)] }
EstimatorPoses == FinitePoses \cup NonFinitePoses

\* fovis::VisualOdometry::getMotionEstimateCov(): 6x6, indexed from 0
CovSymmetric == [i \in 0..5 |-> [j \in 0..5 |-> IF i = j THEN i + 1 ELSE 1]]
CovAsymmetric == [i \in 0..5 |-> [j \in 0..5 |-> 6 * i + j + 1]]

\* What the estimator reports with a SUCCESS besides the pose
EstimatorReports ==
  { [motion |-> [q |-> QI, o |-> Vec(1, 0, 0)], cov |-> CovAsymmetric],
    [motion |-> [q |-> RZ, o |-> Vec(0, 0, 0)], cov |-> CovSymmetric] }


\* The tf tree's base_link -> sensor transform at a lookup, when there is one
TfOffsets == {Transform(RZ, Vec(1, 0, 0))}
TfTree == {[ok |-> FALSE, t |-> IdentityT]} \cup {[ok |-> TRUE, t |-> t] : t \in TfOffsets}

\* Threads that call process() / processReinitFovis()
Callers == {"cb1"}

\* The ~tf_factor parameter as configured
TfFactorParams == {0, 1, 2}

\* ros::Duration(9.0), in ticks of half a second
KeepaliveInterval == 18

NULL == "NULL"
ALLOCATED == "VisualOdometry"

VARIABLES
  odometer_mutex_,            \* "free" or the caller holding the scoped_lock
  visual_odometer_,           \* NULL or ALLOCATED
  reset_odometer_,
  last_time_,
  last_published_tf_time_,
  base_transform_,
  initial_base_to_sensor_,
  translation_correction_factor_,
  publish_tf_,
  pc,                         \* per caller: the next statement of process()
  frame,                      \* locals of the process() call holding the lock
  kpc,                        \* the next statement of publishLastKnownTf()
  now,                        \* ros::Time::now()
  tf_tree,                    \* the tf tree's base_link -> sensor transform
  out,                        \* what the last step emitted
  frames,                     \* history: number of process() calls so far
  prev_status,                \* history: outcome of the last completed frame
  discarded,                  \* history: context discarded since last fusion
  last_bcast_at,              \* history: clock at the last sendTransform
  committed_pose,             \* history: base_transform_ after the last
                              \*          completed successful frame
  committed_sensor_pose       \* history: the sensor pose of that frame

fields == <<odometer_mutex_, visual_odometer_, reset_odometer_, last_time_,
            last_published_tf_time_, base_transform_, initial_base_to_sensor_,
            translation_correction_factor_, publish_tf_>>
history == <<frames, prev_status, discarded, last_bcast_at, committed_pose,
            committed_sensor_pose>>
env == <<tf_tree>>
vars == <<fields, pc, frame, kpc, now, env, out, history>>

NoFrame == [stamp |-> 0, first_run |-> FALSE, sensor_pose |-> IdentityT,
            current_base_to_sensor |-> IdentityT]

\* loadParams(): a tf_factor of 0 is replaced by 1
loadParams(tf_factor) == IF tf_factor = 0 THEN 1 ELSE tf_factor

\* The constructor OdometerBase()
Init ==
  /\ odometer_mutex_ = "free"
  /\ visual_odometer_ = NULL
  /\ reset_odometer_ = FALSE
  /\ last_time_ = 0
  /\ last_published_tf_time_ = 0
  /\ base_transform_ = IdentityT
  /\ initial_base_to_sensor_ = IdentityT  \* unset until initOdometer assigns it
  /\ translation_correction_factor_ \in {loadParams(p) : p \in TfFactorParams}
  /\ publish_tf_ \in BOOLEAN
  /\ pc = [t \in Callers |-> "idle"]
  /\ frame = NoFrame
  /\ kpc = "idle"
  /\ now = MaxLag + 1
  /\ tf_tree \in TfTree
  /\ out = NoOut
  /\ frames = 0
  /\ prev_status = "none"
  /\ discarded = FALSE
  /\ last_bcast_at = 0
  /\ committed_pose = IdentityT
  /\ committed_sensor_pose = IdentityT

\* A getBaseToSensorTransform() that would return an offset without a lookup
getBaseToSensorTransformAssumed(tree) == Transform(RZ, Vec(1, 0, 0))

\* getBaseToSensorTransform(): the looked-up transform, or identity
getBaseToSensorTransform(tree) == IF tree.ok THEN tree.t ELSE IdentityT


\* eigenToTF()
eigenToTF(pose) == Transform(pose.q, pose.o)

\* The NaN check of process() on the converted sensor pose
HasNaN(sensor_pose) ==
  LET o == sensor_pose.origin
      q == getRotation(sensor_pose.basis)
  IN  \/ isnan(o[1]) \/ isnan(o[2]) \/ isnan(o[3])
      \/ isnan(q[1]) \/ isnan(q[2]) \/ isnan(q[3]) \/ isnan(q[4])

\* The sensor poses process() can see after eigenToTF(), by the NaN check
SensorPoses == {eigenToTF(pose) : pose \in EstimatorPoses}
NaNSensorPoses == {sp \in SensorPoses : HasNaN(sp)}
ValidSensorPoses == {sp \in SensorPoses : ~HasNaN(sp)}

\* An initOdometer() that looks the Anchor up even when resetting
initOdometerLookup == getBaseToSensorTransform(tf_tree)

\* initOdometer(): the Anchor it leaves (a lookup unless resetting)
initOdometer ==
  IF ~reset_odometer_ THEN getBaseToSensorTransform(tf_tree)
  ELSE initial_base_to_sensor_

\* process(), lines 120-125: the Anchor after the optional initOdometer()
AnchorAfterInit ==
  IF visual_odometer_ = NULL THEN initOdometer ELSE initial_base_to_sensor_

\* A scoped_lock that would not wait for the mutex
CanLockUnguarded(t) == pc[t] = "idle"

\* scoped_lock: a caller enters when the mutex is free
CanLock(t) == pc[t] = "idle" /\ odometer_mutex_ = "free"

\* image_msg->header.stamp, for an image that reaches process() lag ticks
\* after it was taken
Stamp(lag) == now - lag
StampLags == {0, MaxLag}


(***************************************************************************)
(* process().  The calls that return without touching what the keepalive   *)
(* reads (a failure frame, a NaN frame) are one step each; a valid success *)
(* frame is split at its writes of base_transform_ and                     *)
(* last_published_tf_time_, which publishLastKnownTf() reads unlocked.     *)
(***************************************************************************)

\* A failure frame that would keep the time of the last fusion
ProcessFailureKeepingTime(t) ==
  /\ CanLock(t)
  /\ frames < MaxFrames
  /\ initial_base_to_sensor_' = AnchorAfterInit
  /\ \E lag \in StampLags :
       out' = [NoOut EXCEPT !.ev = "failure",
                 !.init = (visual_odometer_ = NULL),
                 !.odom = [NoOdom EXCEPT !.sent = TRUE, !.stamp = Stamp(lag)],
                 !.pose = [NoPose EXCEPT !.sent = TRUE, !.stamp = Stamp(lag)],
                 !.info = TRUE]
  /\ visual_odometer_' = ALLOCATED
  /\ reset_odometer_' = FALSE
  /\ UNCHANGED last_time_
  /\ frames' = frames + 1
  /\ prev_status' = "failure"
  /\ UNCHANGED <<odometer_mutex_, last_published_tf_time_, base_transform_,
                 translation_correction_factor_, publish_tf_, pc, frame, kpc,
                 now, env, discarded, last_bcast_at, committed_pose,
                 committed_sensor_pose>>

\* Lines 117-163 and 249-295: the estimator reports a failure code
ProcessFailure(t) ==
  /\ CanLock(t)
  /\ frames < MaxFrames
  /\ initial_base_to_sensor_' = AnchorAfterInit
  /\ \E lag \in StampLags :
       out' = [NoOut EXCEPT !.ev = "failure",
                 !.init = (visual_odometer_ = NULL),
                 !.odom = [NoOdom EXCEPT !.sent = TRUE, !.stamp = Stamp(lag)],
                 !.pose = [NoPose EXCEPT !.sent = TRUE, !.stamp = Stamp(lag)],
                 !.info = TRUE]
  /\ visual_odometer_' = ALLOCATED
  /\ reset_odometer_' = FALSE
  /\ last_time_' = 0
  /\ frames' = frames + 1
  /\ prev_status' = "failure"
  /\ UNCHANGED <<odometer_mutex_, last_published_tf_time_, base_transform_,
                 translation_correction_factor_, publish_tf_, pc, frame, kpc,
                 now, env, discarded, last_bcast_at, committed_pose,
                 committed_sensor_pose>>

\* Lines 117-194: SUCCESS with a NaN in the converted sensor pose
ProcessNaN(t) ==
  /\ CanLock(t)
  /\ frames < MaxFrames
  /\ NaNSensorPoses # {}      \* whichever of them the estimator reported
  /\ initial_base_to_sensor_' =
       TMul(base_transform_, getBaseToSensorTransform(tf_tree))
  /\ visual_odometer_' = NULL
  /\ reset_odometer_' = TRUE
  /\ out' = [NoOut EXCEPT !.ev = "nan"]
  /\ frames' = frames + 1
  /\ prev_status' = "nan"
  /\ discarded' = TRUE
  /\ UNCHANGED <<odometer_mutex_, last_time_, last_published_tf_time_,
                 base_transform_, translation_correction_factor_, publish_tf_,
                 pc, frame, kpc, now, env, last_bcast_at, committed_pose,
                 committed_sensor_pose>>

\* Lines 198-199
ComposedPose(anchor, sensor_pose, current_base_to_sensor) ==
  TMul(TMul(anchor, sensor_pose), TInverse(current_base_to_sensor))

\* Lines 117-199: SUCCESS with no NaN in the converted sensor pose, up to
\* the assignment of the composed pose to base_transform_
ProcessCompose(t) ==
  /\ CanLock(t)
  /\ frames < MaxFrames
  /\ \E sensor_pose \in ValidSensorPoses, lag \in StampLags :
       LET current_base_to_sensor == getBaseToSensorTransform(tf_tree)
       IN  /\ frame' = [stamp |-> Stamp(lag),
                        first_run |-> (visual_odometer_ = NULL),
                        sensor_pose |-> sensor_pose,
                        current_base_to_sensor |-> current_base_to_sensor]
           /\ base_transform_' = ComposedPose(AnchorAfterInit, sensor_pose,
                                              current_base_to_sensor)
  /\ initial_base_to_sensor_' = AnchorAfterInit
  /\ odometer_mutex_' = t
  /\ pc' = [pc EXCEPT ![t] = "scale"]
  /\ visual_odometer_' = ALLOCATED
  /\ reset_odometer_' = FALSE
  /\ out' = NoOut
  /\ frames' = frames + 1
  /\ UNCHANGED <<last_time_, last_published_tf_time_,
                 translation_correction_factor_, publish_tf_, kpc, now, env,
                 prev_status, discarded, last_bcast_at, committed_pose,
                 committed_sensor_pose>>

\* A line 201 that would leave the translation as composed
UnscaledPose == base_transform_

\* Line 201
ScaledPose ==
  [base_transform_ EXCEPT
     !.origin = VScale(base_transform_.origin, translation_correction_factor_)]

ProcessScale(t) ==
  /\ pc[t] = "scale"
  /\ base_transform_' = ScaledPose
  /\ pc' = [pc EXCEPT ![t] = "publish"]
  /\ out' = NoOut
  /\ UNCHANGED <<odometer_mutex_, visual_odometer_, reset_odometer_, last_time_,
                 last_published_tf_time_, initial_base_to_sensor_,
                 translation_correction_factor_, publish_tf_, frame, kpc, now, env,
                 history>>

\* A dt that takes an unknown last_time_ for a time
FrameDtOfUnknown == frame.stamp - last_time_

\* Lines 216-217: dt in ticks
FrameDt == IF last_time_ = 0 THEN 0 ELSE frame.stamp - last_time_

\* tf::Quaternion::getAngle(), in units of pi, for w = 1 and w = 0
getAngle(q) == IF q[4] = 1 THEN 0 ELSE IF q[4] = 0 THEN 1 ELSE NaN

\* tf::Quaternion::getAxis(): (1, 0, 0) when there is no rotation
getAxis(q) == IF q[4] = 1 THEN Vec(1, 0, 0) ELSE <<q[1], q[2], q[3]>>

\* Lines 220-237: the twist from the estimator's incremental motion
Twist(motion, dt) ==
  LET sensor_motion == eigenToTF(motion)
      delta_base_transform ==
        TMul(TMul(frame.current_base_to_sensor, sensor_motion),
             TInverse(frame.current_base_to_sensor))
      t == delta_base_transform.origin
      delta_rot == getRotation(delta_base_transform.basis)
      a == VScale(getAxis(delta_rot), getAngle(delta_rot))
  IN  [linear |-> <<DivBySec(t[1], dt), DivBySec(t[2], dt), DivBySec(t[3], dt)>>,
       angular |-> <<DivBySec(a[1], dt), DivBySec(a[2], dt), DivBySec(a[3], dt)>>]

\* Lines 240-243: covariance[j*6+i] = motion_cov(i,j)
TwistCovariance(motion_cov) ==
  [n \in 1..36 |-> motion_cov[(n - 1) % 6][(n - 1) \div 6]]

\* Lines 204-247, 255-295
ProcessPublish(t) ==
  /\ pc[t] = "publish"
  /\ \E report \in EstimatorReports :
       LET dt == FrameDt
           msg_pose == poseTFToMsg(base_transform_)
       IN  out' = [NoOut EXCEPT !.ev = "success", !.dt = dt,
                     !.init = frame.first_run,
                     !.prev = prev_status, !.gap = discarded,
                     !.motion = report.motion, !.motion_cov = report.cov,
                     !.tf = IF publish_tf_
                            THEN [kind |-> "frame",
                                  transform |-> base_transform_,
                                  stamp |-> frame.stamp]
                            ELSE NoTf,
                     !.odom = [sent |-> TRUE, pose |-> msg_pose,
                               twist |-> IF dt > 0 THEN Twist(report.motion, dt)
                                         ELSE ZeroTwist,
                               covariance |-> IF dt > 0
                                              THEN TwistCovariance(report.cov)
                                              ELSE ZeroCovariance,
                               stamp |-> frame.stamp],
                     !.pose = [sent |-> TRUE, pose |-> msg_pose,
                               stamp |-> frame.stamp],
                     !.info = TRUE]
  /\ last_time_' = frame.stamp
  /\ last_published_tf_time_' = frame.stamp
  /\ odometer_mutex_' = "free"
  /\ pc' = [pc EXCEPT ![t] = "idle"]
  /\ frame' = NoFrame
  /\ prev_status' = "success"
  /\ discarded' = FALSE
  /\ committed_pose' = base_transform_
  /\ committed_sensor_pose' = frame.sensor_pose
  /\ last_bcast_at' = IF publish_tf_ THEN now ELSE last_bcast_at
  /\ UNCHANGED <<visual_odometer_, reset_odometer_, base_transform_,
                 initial_base_to_sensor_, translation_correction_factor_,
                 publish_tf_, kpc, now, env, frames>>

\* A reinitialization that would also reset the stored pose to the identity
processReinitFovisResetting(t) ==
  /\ CanLock(t)
  /\ IF visual_odometer_ # NULL
     THEN /\ visual_odometer_' = NULL
          /\ discarded' = TRUE
     ELSE UNCHANGED <<visual_odometer_, discarded>>
  /\ out' = NoOut
  /\ base_transform_' = IdentityT
  /\ UNCHANGED <<odometer_mutex_, reset_odometer_, last_time_,
                 last_published_tf_time_,
                 initial_base_to_sensor_, translation_correction_factor_,
                 publish_tf_, pc, frame, kpc, now, env, frames, prev_status,
                 last_bcast_at, committed_pose,
                 committed_sensor_pose>>

\* processReinitFovis()
processReinitFovis(t) ==
  /\ CanLock(t)
  /\ IF visual_odometer_ # NULL
     THEN /\ visual_odometer_' = NULL
          /\ discarded' = TRUE
     ELSE UNCHANGED <<visual_odometer_, discarded>>
  /\ out' = NoOut
  /\ UNCHANGED <<odometer_mutex_, reset_odometer_, last_time_,
                 last_published_tf_time_, base_transform_,
                 initial_base_to_sensor_, translation_correction_factor_,
                 publish_tf_, pc, frame, kpc, now, env, frames, prev_status,
                 last_bcast_at, committed_pose,
                 committed_sensor_pose>>


(***************************************************************************)
(* publishLastKnownTf(), called from a timer thread.  It takes no lock, so *)
(* its statements interleave with those of process().                      *)
(***************************************************************************)

\* Lines 30-31: the test; the call returns when it is false
KeepaliveDue ==
  publish_tf_ /\ now - last_published_tf_time_ > KeepaliveInterval

KeepaliveCheck ==
  /\ kpc = "idle"
  /\ kpc' = IF KeepaliveDue THEN "send" ELSE "idle"
  /\ out' = NoOut
  /\ UNCHANGED <<fields, pc, frame, now, env, history>>

\* What an unlocked read of base_transform_ can return: the stored value,
\* or, while process() is between its two writes (lines 198 and 201), a mix
\* of the value before and the value after the second write.
RacyBaseTransform ==
  {base_transform_}
  \cup { [basis |-> base_transform_.basis, origin |-> o] :
           o \in IF \E t \in DOMAIN pc : pc[t] = "scale"
                 THEN {ScaledPose.origin}
                 ELSE {} }

\* A keepalive that would also forget the time of the last fusion
KeepaliveSendForgetting ==
  /\ kpc = "send"
  /\ last_published_tf_time_' = now
  /\ last_time_' = 0
  /\ out' = [NoOut EXCEPT
               !.tf = [kind |-> "keepalive", transform |-> base_transform_,
                       stamp |-> now]]
  /\ last_bcast_at' = now
  /\ kpc' = "idle"
  /\ UNCHANGED <<odometer_mutex_, visual_odometer_, reset_odometer_,
                 base_transform_, initial_base_to_sensor_,
                 translation_correction_factor_, publish_tf_, pc, frame, now,
                 env, frames, prev_status, discarded, committed_pose,
                 committed_sensor_pose>>

\* Lines 33-36
KeepaliveSend ==
  /\ kpc = "send"
  /\ last_published_tf_time_' = now
  /\ \E read \in RacyBaseTransform :
       out' = [NoOut EXCEPT
                 !.tf = [kind |-> "keepalive", transform |-> read,
                         stamp |-> now]]
  /\ last_bcast_at' = now
  /\ kpc' = "idle"
  /\ UNCHANGED <<odometer_mutex_, visual_odometer_, reset_odometer_, last_time_,
                 base_transform_, initial_base_to_sensor_,
                 translation_correction_factor_, publish_tf_, pc, frame, now,
                 env, frames, prev_status, discarded, committed_pose,
                 committed_sensor_pose>>

\* The clock advances between calls: by one tick (at most MaxShort times in
\* a row), or by a pause one tick short of the keepalive interval
LongPause == KeepaliveInterval - 1

Tick ==
  /\ kpc = "idle"
  /\ \A t \in DOMAIN pc : pc[t] = "idle"
  /\ \E d \in {1, LongPause} :
       /\ d = 1 => (now - (MaxLag + 1)) % LongPause < MaxShort
       /\ now + d <= MaxTime
       /\ now' = now + d
  /\ out' = NoOut
  /\ UNCHANGED <<fields, pc, frame, kpc, env, history>>

Next ==
  \/ \E t \in DOMAIN pc : ProcessFailure(t)
  \/ \E t \in DOMAIN pc : ProcessNaN(t)
  \/ \E t \in DOMAIN pc : ProcessCompose(t)
  \/ \E t \in DOMAIN pc : ProcessScale(t)
  \/ \E t \in DOMAIN pc : ProcessPublish(t)
  \/ \E t \in DOMAIN pc : processReinitFovis(t)
  \/ KeepaliveCheck
  \/ KeepaliveSend
  \/ Tick

Spec == Init /\ [][Next]_vars

\* Two threads that call process() and processReinitFovis(): the image
\* callback and a service callback of a multi-threaded spinner
ConcurrentCallers == {"cb1", "cb2"}

\* The constructor, with the default parameters and two calling threads
InitConcurrent ==
  /\ odometer_mutex_ = "free"
  /\ visual_odometer_ = NULL
  /\ reset_odometer_ = FALSE
  /\ last_time_ = 0
  /\ last_published_tf_time_ = 0
  /\ base_transform_ = IdentityT
  /\ initial_base_to_sensor_ = IdentityT
  /\ translation_correction_factor_ = loadParams(1)
  /\ publish_tf_ = TRUE
  /\ pc = [t \in ConcurrentCallers |-> "idle"]
  /\ frame = NoFrame
  /\ kpc = "idle"
  /\ now = MaxLag + 1
  /\ tf_tree \in TfTree
  /\ out = NoOut
  /\ frames = 0
  /\ prev_status = "none"
  /\ discarded = FALSE
  /\ last_bcast_at = 0
  /\ committed_pose = IdentityT
  /\ committed_sensor_pose = IdentityT

\* The step by which a call in progress leaves the scaling (line 201), and the
\* step by which it returns (the end of the scope of line 117).  Within Next
\* these are exactly the steps of ProcessScale(t) and ProcessPublish(t), and
\* they are enabled exactly when those are
ProcessAdvances(t) == pc[t] = "scale" /\ pc' = [pc EXCEPT ![t] = "publish"]

ProcessReturns(t) == pc[t] = "publish" /\ pc' = [pc EXCEPT ![t] = "idle"]

\* A thread inside process() keeps running: the steps of a call in progress
\* are taken eventually
ProcessFairness ==
  \A t \in ConcurrentCallers :
    WF_pc(ProcessAdvances(t)) /\ WF_pc(ProcessReturns(t))

SpecConcurrent == InitConcurrent /\ [][Next]_vars /\ ProcessFairness


(***************************************************************************)
(* Properties.                                                             *)
(***************************************************************************)
FiniteVec(v) == \A i \in 1..3 : isfinite(v[i])
FiniteTransform(t) ==
  FiniteVec(t.origin) /\ \A i \in 1..3 : FiniteVec(t.basis[i])
FinitePoseMsg(p) ==
  FiniteVec(p.position) /\ \A i \in 1..4 : isfinite(p.orientation[i])

\* The body motion a sensor pose stands for under a body-to-sensor offset
BodyMotion(current_base_to_sensor, sensor_pose) ==
  TMul(TMul(current_base_to_sensor, sensor_pose),
       TInverse(current_base_to_sensor))

\* C1: the stored body pose and every emitted body pose (trajectory message,
\* pose-only message, per-frame broadcast, keepalive broadcast) has only
\* finite components, whatever finite, NaN or +/-Inf pose the estimator
\* reports with a SUCCESS.
C1_EmittedPosesFinite ==
  /\ FiniteTransform(base_transform_)
  /\ out.tf.kind # "none" => FiniteTransform(out.tf.transform)
  /\ out.odom.sent => FinitePoseMsg(out.odom.pose)
  /\ out.pose.sent => FinitePoseMsg(out.pose.pose)

\* A body pose advanced by a body motion whose translation is scaled by the
\* correction factor
Advance(pose, body_motion, factor) ==
  [basis |-> MMul(pose.basis, body_motion.basis),
   origin |-> VAdd(pose.origin,
                   VScale(MVec(pose.basis, body_motion.origin), factor))]

\* C2: re-anchoring continuity.  When the frame before was discarded for a
\* NaN pose, the body pose a success frame is about to publish is the last
\* valid published pose advanced by only the motion the fresh estimator
\* reports, for every correction factor and body-to-sensor offset; for the
\* identity sensor pose it is the last valid published pose itself.
C2_ReanchorContinuity ==
  \A t \in DOMAIN pc :
    ( /\ pc[t] = "publish"
      /\ prev_status = "nan"
      /\ FiniteTransform(committed_pose)
      /\ FiniteTransform(frame.sensor_pose) )
    => base_transform_ =
         Advance(committed_pose,
                 BodyMotion(frame.current_base_to_sensor, frame.sensor_pose),
                 translation_correction_factor_)

\* C3: publishLastKnownTf() and process() exclude each other: no step of
\* the keepalive is taken while a process() call holds the lock.
C3_KeepaliveExcludesProcess ==
  [][(KeepaliveCheck \/ KeepaliveSend) => odometer_mutex_ = "free"]_vars

\* C4: every keepalive broadcast carries the body pose stored at the end of
\* the most recent completed successful frame, stamped with the current
\* time, under every interleaving with frame processing.
C4_KeepaliveCarriesLastPose ==
  out.tf.kind = "keepalive" =>
    /\ out.tf.transform = committed_pose
    /\ out.tf.stamp = now

\* C5: a keepalive broadcast happens only when transform publication is
\* enabled and the idle interval has elapsed since the most recent
\* transform broadcast of either kind, even when image stamps lag the clock.
C5_KeepaliveNotEarly ==
  [][KeepaliveSend =>
       /\ publish_tf_
       /\ last_bcast_at # 0 => now - last_bcast_at >= KeepaliveInterval]_vars

\* C6: a keepalive step leaves the trajectory state as it was: the body
\* pose, the Anchor, the time of the last fusion, the reset flag and the
\* estimator context are unchanged by publishLastKnownTf(), whether or not
\* it broadcasts.
C6_KeepaliveKeepsTrajectory ==
  [][(KeepaliveCheck \/ KeepaliveSend) =>
       UNCHANGED <<base_transform_, initial_base_to_sensor_, last_time_,
                   reset_odometer_, visual_odometer_>>]_vars

\* A keepalive has broadcast a pose that frames had moved off the identity
C6_Witness ==
  /\ out.tf.kind = "keepalive"
  /\ base_transform_ # IdentityT
  /\ initial_base_to_sensor_ # IdentityT
  /\ last_time_ # 0
  /\ visual_odometer_ = ALLOCATED

\* C7: a success frame publishes an all-zero twist and an unpopulated
\* covariance whenever its stamp is not later than the time of the last
\* fusion, that time is unknown, or the frame before had a failure status.
C7_NoVelocityWithoutDt ==
  [][\A t \in DOMAIN pc :
       ( /\ ProcessPublish(t)
         /\ \/ last_time_ = 0
            \/ frame.stamp <= last_time_
            \/ prev_status = "failure" )
       => /\ out'.odom.twist = ZeroTwist
          /\ out'.odom.covariance = ZeroCovariance]_vars

\* A success frame right after a failure frame has published
C7_Witness ==
  /\ out.ev = "success"
  /\ out.prev = "failure"
  /\ out.odom.sent
  /\ out.odom.twist = ZeroTwist

\* C8: the first success frame after the estimator context was discarded
\* (by NaN recovery or by processReinitFovis()) publishes a zero twist and an
\* unpopulated covariance, whatever the fresh estimator reports.
C8_NoVelocityAfterReset ==
  (out.ev = "success" /\ out.gap) =>
    /\ out.odom.twist = ZeroTwist
    /\ out.odom.covariance = ZeroCovariance

\* C9: when velocity is computed, the published covariance is the reported
\* 6x6 matrix M copied with its row/column order: entry r*6+c is M(r,c).
C9_CovarianceDirectCopy ==
  (out.ev = "success" /\ out.dt > 0) =>
    \A r \in 0..5, c \in 0..5 :
      out.odom.covariance[r * 6 + c + 1] = out.motion_cov[r][c]

\* The Anchor re-captured from a body pose: the pose composed with the
\* current body-to-sensor offset
Recaptured(pose) == TMul(pose, getBaseToSensorTransform(tf_tree))

\* C10: a success frame with a NaN pose publishes nothing (no trajectory
\* message, no pose-only message, no transform), leaves the stored body pose
\* at the last valid value, discards the estimator context and re-captures
\* the Anchor as that pose composed with the current body-to-sensor offset;
\* the next frame then re-initializes the estimator with the re-captured
\* Anchor, not with a fresh lookup.
C10_NaNFrameSuppressed ==
  /\ [](out.ev = "nan" =>
          /\ out.tf.kind = "none" /\ ~out.odom.sent /\ ~out.pose.sent
          /\ base_transform_ = committed_pose
          /\ visual_odometer_ = NULL
          /\ reset_odometer_
          /\ initial_base_to_sensor_ = Recaptured(committed_pose))
  /\ [][\A t \in DOMAIN pc :
          ( /\ prev_status = "nan"
            /\ ProcessFailure(t) \/ ProcessCompose(t) )
          => /\ visual_odometer_ = NULL
             /\ visual_odometer_' = ALLOCATED
             /\ ~reset_odometer_'
             /\ initial_base_to_sensor_' = Recaptured(committed_pose)]_vars

\* The frame after a NaN frame has started from an Anchor that a fresh
\* lookup would not have given
C10_Witness ==
  /\ prev_status = "nan"
  /\ \E t \in DOMAIN pc : pc[t] = "scale"
  /\ frame.first_run
  /\ initial_base_to_sensor_ = Recaptured(committed_pose)
  /\ initial_base_to_sensor_ # getBaseToSensorTransform(tf_tree)

\* C11: a frame whose estimator status is a failure code leaves the stored
\* body pose, the Anchor and the last-published time unchanged and clears
\* the time of the last fusion, so the next success frame computes no
\* velocity.
C11_FailureFrameEffect ==
  [][\A t \in DOMAIN pc :
       ProcessFailure(t) =>
         /\ UNCHANGED <<base_transform_, initial_base_to_sensor_,
                        last_published_tf_time_>>
         /\ last_time_' = 0]_vars

\* C11, for the frames it holds of: a failure frame leaves the stored body
\* pose and the last-published time unchanged and clears the time of the
\* last fusion; it leaves the Anchor unchanged when the estimator context
\* exists on entry (a failure frame that initializes captures the Anchor);
\* the success frame after it computes no velocity.
C11_FailureFrameEffectInTracking ==
  [][\A t \in DOMAIN pc :
       /\ ProcessFailure(t) =>
            /\ UNCHANGED <<base_transform_, last_published_tf_time_>>
            /\ last_time_' = 0
            /\ visual_odometer_ # NULL => UNCHANGED initial_base_to_sensor_
       /\ (ProcessPublish(t) /\ prev_status = "failure") =>
            /\ out'.dt = 0
            /\ out'.odom.twist = ZeroTwist]_vars

\* A failure frame has ended in Tracking, after a frame had moved the pose
C11_Witness ==
  /\ out.ev = "failure"
  /\ ~out.init
  /\ base_transform_ # IdentityT
  /\ last_published_tf_time_ # 0
  /\ last_time_ = 0

\* C12: a frame whose estimator status is a failure code still publishes one
\* trajectory message and one diagnostics message, the trajectory message
\* carries a zero twist, and the frame broadcasts no transform.
C12_FailureFramePublishes ==
  out.ev = "failure" =>
    /\ out.odom.sent
    /\ out.info
    /\ \A i \in 1..3 : /\ out.odom.twist.linear[i].num = 0
                       /\ out.odom.twist.angular[i].num = 0
    /\ out.tf.kind = "none"

\* A failure frame has ended with transform publication enabled and a pose
\* to broadcast
C12_Witness ==
  /\ out.ev = "failure"
  /\ publish_tf_
  /\ committed_pose # IdentityT

\* C13: the frame that performs the Uninitialized -> Tracking transition
\* (it runs initOdometer()) captures the Anchor and creates the estimator
\* context but publishes no pose: no trajectory message, no pose-only
\* message and no transform, whatever status the estimator reports.
C13_InitFramePublishesNothing ==
  (out.ev \in {"success", "failure"} /\ out.init) =>
    /\ visual_odometer_ = ALLOCATED
    /\ ~out.odom.sent
    /\ ~out.pose.sent
    /\ out.tf.kind = "none"

VSub(a, b) == VAdd(a, VNeg(b))

\* A success frame is about to publish, with the identity as Anchor and as
\* body-to-sensor offset and a finite sensor pose
IdentityAnchored(t) ==
  /\ pc[t] = "publish"
  /\ initial_base_to_sensor_ = IdentityT
  /\ frame.current_base_to_sensor = IdentityT
  /\ FiniteTransform(frame.sensor_pose)

\* C15: with an identity Anchor and an identity body-to-sensor offset, for
\* every correction factor k, the published body position is k times the
\* sensor position and the published orientation is the sensor orientation;
\* between two consecutive success frames the published displacement is k
\* times the sensor displacement (k for a unit step in X), so the factor
\* does not compound across frames.
C15_FactorAppliedOnce ==
  \A t \in DOMAIN pc :
    IdentityAnchored(t) =>
      /\ base_transform_.basis = frame.sensor_pose.basis
      /\ base_transform_.origin =
           VScale(frame.sensor_pose.origin, translation_correction_factor_)
      /\ ( /\ prev_status = "success"
           /\ ~discarded        \* the frame before had the same Anchor
           /\ FiniteTransform(committed_sensor_pose) )
         => VSub(base_transform_.origin, committed_pose.origin) =
              VScale(VSub(frame.sensor_pose.origin,
                          committed_sensor_pose.origin),
                     translation_correction_factor_)

\* With k = 2, a unit step in X after a success frame at the origin is about
\* to be published as a displacement of 2
C15_Witness ==
  /\ \E t \in DOMAIN pc : IdentityAnchored(t)
  /\ translation_correction_factor_ = 2
  /\ prev_status = "success"
  /\ ~discarded
  /\ committed_sensor_pose.origin = Vec(0, 0, 0)
  /\ frame.sensor_pose.origin = Vec(1, 0, 0)
  /\ VSub(base_transform_.origin, committed_pose.origin) = Vec(2, 0, 0)

C17_ExampleScenario ==
  (~tf_tree.ok /\ translation_correction_factor_ = 1) =>
    /\ (frames = 1 /\ out.ev \in {"success", "failure"} /\ out.init) =>
         /\ ~out.odom.sent
         /\ ~out.pose.sent
         /\ out.tf.kind = "none"
    /\ ( /\ frames = 2 /\ out.ev = "success"
         /\ committed_sensor_pose = Transform(QI, Vec(1, 0, 0)) ) =>
         /\ out.odom.pose.position = Vec(1, 0, 0)
         /\ out.odom.twist = ZeroTwist
    /\ ( /\ frames = 3 /\ out.ev = "success" /\ out.prev = "success"
         /\ out.dt = 1 /\ ~out.gap
         /\ committed_sensor_pose = Transform(QI, Vec(2, 0, 0))
         /\ out.motion = [q |-> QI, o |-> Vec(1, 0, 0)] ) =>
         /\ out.odom.pose.position = Vec(2, 0, 0)
         /\ out.odom.twist.linear = <<Rat(2, 1), ZeroRat, ZeroRat>>

\* A frame that runs to the end of the estimator's report without a NaN pose
FrameStart(t) == ProcessFailure(t) \/ ProcessCompose(t)

\* C18: the Anchor is immutable between resets.  A frame processed in
\* Tracking that ends in failure or in a valid success, and every keepalive
\* step, leaves the Anchor unchanged; the Anchor changes only when
\* initialization runs without a pending reset flag or when NaN recovery
\* re-captures it; a pending reset flag implies that the estimator context
\* is absent, and the next initialization consumes it.
C18_AnchorImmutable ==
  /\ [](reset_odometer_ => visual_odometer_ = NULL)
  /\ [][/\ (KeepaliveCheck \/ KeepaliveSend) =>
             UNCHANGED initial_base_to_sensor_
        /\ \A t \in DOMAIN pc :
             /\ (FrameStart(t) /\ visual_odometer_ # NULL) =>
                  UNCHANGED initial_base_to_sensor_
             /\ (ProcessScale(t) \/ ProcessPublish(t)) =>
                  UNCHANGED <<initial_base_to_sensor_, reset_odometer_>>
             /\ (FrameStart(t) /\ reset_odometer_) =>
                  /\ ~reset_odometer_'
                  /\ UNCHANGED initial_base_to_sensor_
        /\ initial_base_to_sensor_' # initial_base_to_sensor_ =>
             \E t \in DOMAIN pc :
               \/ ProcessNaN(t)
               \/ /\ FrameStart(t)
                  /\ visual_odometer_ = NULL /\ ~reset_odometer_
        /\ reset_odometer_' # reset_odometer_ =>
             \E t \in DOMAIN pc :
               \/ ProcessNaN(t)
               \/ FrameStart(t) /\ visual_odometer_ = NULL]_vars

\* After a NaN frame an initializing frame has ended in failure: it has
\* consumed the reset flag and kept the re-captured Anchor
C18_Witness ==
  /\ out.ev = "failure"
  /\ out.init
  /\ ~reset_odometer_
  /\ committed_pose # IdentityT
  /\ initial_base_to_sensor_ = Recaptured(committed_pose)
  /\ initial_base_to_sensor_ # getBaseToSensorTransform(tf_tree)

\* C19: at most one frame is processed at a time and the lock is released
\* on every exit path.  No two process() calls, and no process() call and
\* processReinitFovis() call, are in their critical sections together; when
\* a process() call has returned (success, failure, or the NaN early return)
\* the lock is free; a lock that is held is eventually released, so a later
\* caller acquires it.
C19_OneFrameAtATime ==
  /\ [](/\ Cardinality({t \in DOMAIN pc : pc[t] # "idle"}) <= 1
        /\ \A t \in DOMAIN pc : odometer_mutex_ = t <=> pc[t] # "idle"
        /\ out.ev # "none" => odometer_mutex_ = "free")
  /\ [][\A t \in DOMAIN pc :
          (FrameStart(t) \/ ProcessNaN(t) \/ processReinitFovis(t)) =>
            /\ odometer_mutex_ = "free"
            /\ \A u \in DOMAIN pc : pc[u] = "idle"]_vars
  /\ \A t \in ConcurrentCallers :
       (odometer_mutex_ = t) ~> (odometer_mutex_ = "free")

\* After a NaN frame's early return, another thread's process() call is in
\* its critical section while the first thread is outside
C19_Witness ==
  /\ prev_status = "nan"
  /\ pc["cb1"] = "idle"
  /\ pc["cb2"] = "scale"
  /\ odometer_mutex_ = "cb2"

\* Two consecutive success frames in pure translation, with an identity Anchor
\* and body-to-sensor offset and a consistent estimator: the motion reported
\* with the second frame takes the first frame's sensor pose to the second's
ConsistentTranslation(t) ==
  /\ IdentityAnchored(t)
  /\ ProcessPublish(t)
  /\ prev_status = "success"
  /\ ~discarded
  /\ out'.dt > 0
  /\ FiniteTransform(committed_sensor_pose)
  /\ out'.motion.q = QI
  /\ TMul(committed_sensor_pose, eigenToTF(out'.motion)) = frame.sensor_pose

\* C20: the published twist is consistent with the published trajectory.
\* For two consecutive success frames with pure-translation motion, identity
\* body-to-sensor offset and a consistent estimator, the published linear
\* velocity times dt equals the difference of the two published body
\* positions, for every correction factor.  (The velocity is per second and
\* dt is in ticks of half a second.)
C20_TwistMatchesTrajectory ==
  [][\A t \in DOMAIN pc :
       ConsistentTranslation(t) =>
         \A i \in 1..3 :
           out'.odom.twist.linear[i].num * out'.dt =
             2 * out'.odom.twist.linear[i].den *
               (base_transform_.origin[i] - committed_pose.origin[i])]_vars

=============================================================================
